---- MODULE Spec2Model ----
(***************************************************************************)
(* The POSIX compatibility headers of the kreuzberg Ruby extension:        *)
(*   packages/ruby/ext/kreuzberg_rb/native/include/strings.h               *)
(*   packages/ruby/ext/kreuzberg_rb/native/include/unistd.h                *)
(*                                                                         *)
(* The state is the state of one translation unit while it is being        *)
(* preprocessed (the macro table, the typedef of ssize_t, the system       *)
(* headers pulled in, the diagnostics), followed by the calls the compiled *)
(* unit makes through the names the headers bound.                         *)
(***************************************************************************)
EXTENDS Integers, Sequences, FiniteSets, TLC

VARIABLES
    target,      \* "msvc" (_MSC_VER defined), "posix", or "other" (neither)
    ptrBits,     \* width of a pointer on the target, in bits
    phase,       \* "compile" while the unit is preprocessed, then "run"
    macros,      \* macro name -> replacement text, or Undef
    tuDefs,      \* what the unit itself #defined, before the headers did
    defCount,    \* name -> number of #define / typedef the headers executed
    redef,       \* names the headers #defined over a different earlier body
    ssizeType,   \* the type the headers' typedef gave ssize_t, or "none"
    sysIncluded, \* system headers the headers pulled in
    inclCount,   \* header -> number of #include of it seen so far
    nPre,        \* number of #define the unit made itself
    diag,        \* "ok", or "fatal" once an #include found no file
    call         \* the last call made through a name of the surface

vars == <<target, ptrBits, phase, macros, tuDefs, defCount, redef, ssizeType,
          sysIncluded, inclCount, nPre, diag, call>>

----------------------------------------------------------------------------
(* Bounds of the model. *)

\* #include directives of one header the unit may hold
MaxIncludes == 2
\* #define directives the unit may make itself ahead of the headers
MaxPreDefs == 1
\* length of the buffer handed to bzero
BufLen == 2

----------------------------------------------------------------------------
(* Names. *)

Undef == "<undef>"

Targets == {"msvc", "posix", "other"}
PointerWidths == {32, 64}

ShimHeaders == {"strings.h", "unistd.h"}

StringsNames == <<"strcasecmp", "strncasecmp", "bzero">>
PermNames == <<"F_OK", "X_OK", "W_OK", "R_OK">>
UnistdFuncs == <<"access", "dup2", "fileno", "getpid", "isatty",
                 "lseek", "read", "write", "close", "unlink">>

Range(s) == {s[i] : i \in 1..Len(s)}

\* the include guard of each header (strings.h:2-3, unistd.h:2-3)
Guard(h) == IF h = "strings.h" THEN "KREUZBERG_RUBY_STRINGS_H"
                               ELSE "KREUZBERG_RUBY_UNISTD_H"

Guards == {Guard(h) : h \in ShimHeaders}

\* every name the headers test or define
MacroNames == Range(StringsNames) \cup Range(PermNames) \cup Range(UnistdFuncs)
              \cup {"ssize_t"} \cup Guards

----------------------------------------------------------------------------
(* What the headers define. *)

\* replacement text of every macro the headers define
\* (strings.h:3,10,13,16; unistd.h:3,16,19,22,25,28-37)
ShimTable ==
    [n \in MacroNames \ {"ssize_t"} |->
        CASE n \in Guards       -> ""
          [] n = "strcasecmp"   -> "_stricmp"
          [] n = "strncasecmp"  -> "_strnicmp"
          [] n = "bzero"        -> "memset((ptr), 0, (size))"
          [] n = "F_OK"         -> "0"
          [] n = "X_OK"         -> "0"
          [] n = "W_OK"         -> "2"
          [] n = "R_OK"         -> "4"
          [] n = "access"       -> "_access"
          [] n = "dup2"         -> "_dup2"
          [] n = "fileno"       -> "_fileno"
          [] n = "getpid"       -> "_getpid"
          [] n = "isatty"       -> "_isatty"
          [] n = "lseek"        -> "_lseek"
          [] n = "read"         -> "_read"
          [] n = "write"        -> "_write"
          [] n = "close"        -> "_close"
          [] n = "unlink"       -> "_unlink"]

\* a slip of the pen: strncasecmp given the body of the line above it
ShimBodyCopied(n) == IF n = "strncasecmp" THEN "_stricmp" ELSE ShimTable[n]

\* X_OK given its POSIX value
ShimBodyPosixXOK(n) == IF n = "X_OK" THEN "1" ELSE ShimTable[n]

\* F_OK and W_OK exchanged
ShimBodySwappedFW(n) ==
    CASE n = "F_OK" -> "2" [] n = "W_OK" -> "0" [] OTHER -> ShimTable[n]

\* read and write exchanged
ShimBodySwappedRW(n) ==
    CASE n = "read" -> "_write" [] n = "write" -> "_read" [] OTHER -> ShimTable[n]

\* the text a #define of the headers gives name n
ShimBody(n) == ShimTable[n]

\* the type of the typedef of ssize_t (unistd.h:12)
SsizeTypedef == "long"

\* width of long under the Microsoft compiler, 32- and 64-bit targets alike
MsvcLongBits == 32

\* width in bits of a type of the target
TypeBits(t, ty, ptr) ==
    IF ty = "long" THEN (IF t = "msvc" THEN MsvcLongBits ELSE ptr) ELSE ptr

\* the system headers each runtime ships
\* (those named at strings.h:5,8 and unistd.h:6-9,40)
SysHeaders(t) ==
    CASE t = "msvc"  -> {"string.h", "ctype.h", "stdlib.h",
                         "direct.h", "io.h", "process.h"}
      [] t = "posix" -> {"string.h", "ctype.h", "stdlib.h",
                         "strings.h", "unistd.h"}
      [] OTHER       -> {"string.h", "ctype.h", "stdlib.h"}

----------------------------------------------------------------------------
(* The preprocessor.  A preprocessing state pp is a record                 *)
(*   m: the macro table, c: the definition counts, r: the redefinitions,   *)
(*   ty: the typedef of ssize_t, inc: system headers included, d: diag.    *)

\* #define n body
Define(pp, n, body) ==
    [pp EXCEPT !.m[n] = body,
               !.c[n] = @ + 1,
               !.r = IF pp.m[n] \notin {Undef, body} THEN @ \cup {n} ELSE @]

\* #ifndef n / #define n body / #endif
IfNDef(pp, n, body) == IF pp.m[n] = Undef THEN Define(pp, n, body) ELSE pp

\* #ifndef ssize_t / typedef long ssize_t; / #endif   (unistd.h:11-13)
TypedefSsize(pp) ==
    IF pp.m["ssize_t"] = Undef
    THEN [pp EXCEPT !.ty = SsizeTypedef, !.c["ssize_t"] = @ + 1]
    ELSE pp

\* #include <h>, and #include_next <h>: the system's header of that name
SysInclude(pp, t, h) ==
    IF pp.d # "ok" THEN pp
    ELSE IF h \in SysHeaders(t) THEN [pp EXCEPT !.inc = @ \cup {h}]
    ELSE [pp EXCEPT !.d = "fatal"]

RECURSIVE SysIncludeAll(_, _, _)
SysIncludeAll(pp, t, hs) ==
    IF hs = <<>> THEN pp
    ELSE SysIncludeAll(SysInclude(pp, t, Head(hs)), t, Tail(hs))

\* the guarded definitions, in the order of the file
RECURSIVE IfNDefAll(_, _)
IfNDefAll(pp, ns) ==
    IF ns = <<>> THEN pp
    ELSE IfNDefAll(IfNDef(pp, Head(ns), ShimBody(Head(ns))), Tail(ns))

\* the unguarded definitions, in the order of the file
RECURSIVE DefineAll(_, _)
DefineAll(pp, ns) ==
    IF ns = <<>> THEN pp
    ELSE DefineAll(Define(pp, Head(ns), ShimBody(Head(ns))), Tail(ns))

\* the include guard never closes
GuardOpenAlways(m, h) == TRUE

\* #ifndef KREUZBERG_RUBY_..._H
GuardOpen(m, h) == m[Guard(h)] = Undef

\* the body of strings.h, inside its guard
StringsBody(pp, t) ==
    LET p1 == Define(pp, Guard("strings.h"), ShimBody(Guard("strings.h")))
        p2 == SysInclude(p1, t, "string.h")
    IN  IF t = "msvc"
        THEN IfNDefAll(SysInclude(p2, t, "ctype.h"), StringsNames)
        ELSE p2

\* the body of unistd.h, inside its guard
UnistdBody(pp, t) ==
    LET p1 == Define(pp, Guard("unistd.h"), ShimBody(Guard("unistd.h")))
    IN  IF t = "msvc"
        THEN LET p2 == SysIncludeAll(p1, t,
                           <<"direct.h", "io.h", "process.h", "stdlib.h">>)
                 p3 == TypedefSsize(p2)
                 p4 == IfNDefAll(p3, PermNames)
             IN  DefineAll(p4, UnistdFuncs)
        ELSE SysInclude(p1, t, "unistd.h")

\* one #include of a header of the shim
Preprocess(pp, t, h) ==
    IF ~GuardOpen(pp.m, h) THEN pp
    ELSE IF h = "strings.h" THEN StringsBody(pp, t)
    ELSE UnistdBody(pp, t)

----------------------------------------------------------------------------
(* The runtime the aliases forward to. *)

\* the functions of the Microsoft runtime the headers name
RuntimeFuncs == {"_stricmp", "_strnicmp", "memset", "_access", "_dup2",
                 "_fileno", "_getpid", "_isatty", "_lseek", "_read",
                 "_write", "_close", "_unlink"}

\* what a path may name
FileKinds == {"absent", "readonly", "writable"}

\* values a runtime function may return: failure, success, a count
Rets == {-1, 0, 1}

\* contents a byte of the buffer may hold
Bytes == {0, 7}

Buffers == [1..BufLen -> Bytes]

\* the number a replacement text stands for
TokenValue(tok) ==
    CASE tok = "0" -> 0 [] tok = "1" -> 1 [] tok = "2" -> 2 [] tok = "4" -> 4

\* _access(path, mode) of the runtime, for a path naming a file of that kind:
\* 0 when the file has the mode, -1 otherwise; modes are 0, 2, 4 and 6
NativeAccess(kind, mode) ==
    IF mode \notin {0, 2, 4, 6} THEN -1
    ELSE IF kind = "absent" THEN -1
    ELSE IF mode \in {2, 6} /\ kind = "readonly" THEN -1
    ELSE 0

\* memset(buf, c, n) of the runtime: the first n bytes become (unsigned char)c
Memset(buf, c, n) ==
    [i \in 1..Len(buf) |-> IF i <= n THEN c % 256 ELSE buf[i]]

\* an object-like alias: name(args) becomes body(args)
ExpandAlias(m, n, args) == [callee |-> m[n], cargs |-> args]

\* bzero with the last two arguments of memset exchanged
ExpandBzeroSwapped(buf, size) ==
    [callee |-> "memset", cargs |-> <<buf, size, 0>>]

\* bzero(ptr, size) becomes memset((ptr), 0, (size))   (strings.h:16)
ExpandBzero(buf, size) ==
    [callee |-> "memset", cargs |-> <<buf, 0, size>>]

\* the value of access(path, modeName) once both names are replaced
AccessOutcome(m, kind, modeName) ==
    NativeAccess(kind, TokenValue(m[modeName]))

----------------------------------------------------------------------------
(* The translation unit. *)

\* the names whose calls are forwarded by an object-like alias, access apart
PlainAliases == (Range(UnistdFuncs) \ {"access"})
                \cup {"strcasecmp", "strncasecmp"}

\* bodies a unit may itself have given a name before a header sees it: the
\* POSIX value of a permission constant; for a function the runtime's own
\* name or a wrapper of the unit; for ssize_t the runtime's SSIZE_T
TuBodies(n) ==
    CASE n = "F_OK" -> {"0"}
      [] n = "X_OK" -> {"1"}
      [] n = "W_OK" -> {"2"}
      [] n = "R_OK" -> {"4"}
      [] n = "ssize_t" -> {"SSIZE_T"}
      [] n = "strcasecmp" -> {"_stricmp", "other"}
      [] n = "strncasecmp" -> {"_strnicmp", "other"}
      [] n = "bzero" -> {"memset((ptr), 0, (size))", "other"}
      [] OTHER -> {"_" \o n, "other"}

NoCall == [via |-> "none", callee |-> "none", args |-> <<>>,
           cargs |-> <<>>, native |-> 0, seen |-> 0, mem |-> <<>>]

Init ==
    /\ target \in Targets
    /\ ptrBits \in PointerWidths
    /\ phase = "compile"
    /\ macros = [n \in MacroNames |-> Undef]
    /\ tuDefs = [n \in MacroNames |-> Undef]
    /\ defCount = [n \in MacroNames |-> 0]
    /\ redef = {}
    /\ ssizeType = "none"
    /\ sysIncluded = {}
    /\ inclCount = [h \in ShimHeaders |-> 0]
    /\ nPre = 0
    /\ diag = "ok"
    /\ call = NoCall

\* the unit defines a macro of its own: #define n body
PreDefine(n, body) ==
    /\ phase = "compile" /\ diag = "ok"
    /\ nPre < MaxPreDefs
    /\ macros[n] = Undef
    /\ macros' = [macros EXCEPT ![n] = body]
    /\ tuDefs' = [tuDefs EXCEPT ![n] = body]
    /\ nPre' = nPre + 1
    /\ UNCHANGED <<target, ptrBits, phase, defCount, redef, ssizeType,
                   sysIncluded, inclCount, diag, call>>

\* the unit, or a header it includes, reaches #include "h" of the shim
Include(h) ==
    /\ phase = "compile" /\ diag = "ok"
    /\ inclCount[h] < MaxIncludes
    /\ inclCount' = [inclCount EXCEPT ![h] = @ + 1]
    /\ LET pp == [m |-> macros, c |-> defCount, r |-> redef,
                  ty |-> ssizeType, inc |-> sysIncluded, d |-> diag]
           qq == Preprocess(pp, target, h)
       IN  /\ macros' = qq.m
           /\ defCount' = qq.c
           /\ redef' = qq.r
           /\ ssizeType' = qq.ty
           /\ sysIncluded' = qq.inc
           /\ diag' = qq.d
    /\ UNCHANGED <<target, ptrBits, phase, tuDefs, nPre, call>>

\* the unit compiled: the program runs
Finish ==
    /\ phase = "compile" /\ diag = "ok"
    /\ phase' = "run"
    /\ UNCHANGED <<target, ptrBits, macros, tuDefs, defCount, redef,
                   ssizeType, sysIncluded, inclCount, nPre, diag, call>>

\* a call n(a) through an alias; the runtime function returns r
CallAlias(n, a, r) ==
    /\ phase = "run" /\ target = "msvc" /\ call = NoCall
    /\ macros[n] \in RuntimeFuncs
    /\ LET e == ExpandAlias(macros, n, <<a>>)
       IN  call' = [via |-> n, callee |-> e.callee, args |-> <<a>>,
                    cargs |-> e.cargs, native |-> r, seen |-> r,
                    mem |-> <<>>]
    /\ UNCHANGED <<target, ptrBits, phase, macros, tuDefs, defCount, redef,
                   ssizeType, sysIncluded, inclCount, nPre, diag>>

\* a call access(path, modeName), the path naming a file of that kind
CallAccess(kind, modeName) ==
    /\ phase = "run" /\ target = "msvc" /\ call = NoCall
    /\ macros["access"] = "_access"
    /\ macros[modeName] # Undef
    /\ LET e == ExpandAlias(macros, "access",
                            <<kind, TokenValue(macros[modeName])>>)
           r == AccessOutcome(macros, kind, modeName)
       IN  call' = [via |-> "access", callee |-> e.callee,
                    args |-> <<kind, modeName>>, cargs |-> e.cargs,
                    native |-> r, seen |-> r, mem |-> <<>>]
    /\ UNCHANGED <<target, ptrBits, phase, macros, tuDefs, defCount, redef,
                   ssizeType, sysIncluded, inclCount, nPre, diag>>

\* a call bzero(buf, n) on a buffer of BufLen bytes
CallBzero(buf, n) ==
    /\ phase = "run" /\ target = "msvc" /\ call = NoCall
    /\ macros["bzero"] = "memset((ptr), 0, (size))"
    /\ LET e == ExpandBzero(buf, n)
       IN  /\ e.cargs[3] <= Len(buf)
           /\ call' = [via |-> "bzero", callee |-> e.callee,
                       args |-> <<buf, n>>, cargs |-> e.cargs,
                       native |-> 0, seen |-> 0,
                       mem |-> Memset(e.cargs[1], e.cargs[2], e.cargs[3])]
    /\ UNCHANGED <<target, ptrBits, phase, macros, tuDefs, defCount, redef,
                   ssizeType, sysIncluded, inclCount, nPre, diag>>

\* the call returns to its caller, which goes on
Return ==
    /\ phase = "run" /\ call # NoCall
    /\ call' = NoCall
    /\ UNCHANGED <<target, ptrBits, phase, macros, tuDefs, defCount, redef,
                   ssizeType, sysIncluded, inclCount, nPre, diag>>

Next ==
    \/ \E n \in MacroNames \ Guards : \E b \in TuBodies(n) : PreDefine(n, b)
    \/ \E h \in ShimHeaders : Include(h)
    \/ Finish
    \/ \E n \in PlainAliases : \E a \in {3} : \E r \in Rets : CallAlias(n, a, r)
    \/ \E k \in FileKinds : \E mn \in Range(PermNames) : CallAccess(k, mn)
    \/ \E b \in Buffers : \E n \in 0..BufLen : CallBzero(b, n)
    \/ Return

Spec == Init /\ [][Next]_vars

----------------------------------------------------------------------------
(* Properties. *)

\* header h has been included, and its inclusion ran to its end
Included(h) == inclCount[h] >= 1 /\ macros[Guard(h)] # Undef

\* the names of the exported surface that are macros
SurfaceMacros == Range(StringsNames) \cup Range(PermNames) \cup Range(UnistdFuncs)

\* the runtime equivalent the specification gives each function name
RuntimeEquivalent(n) ==
    CASE n = "strcasecmp"  -> "_stricmp"
      [] n = "strncasecmp" -> "_strnicmp"
      [] n = "bzero"       -> "memset((ptr), 0, (size))"
      [] OTHER             -> "_" \o n

SurfaceFuncs == Range(StringsNames) \cup Range(UnistdFuncs)

\* C1, as stated: on the Microsoft runtime, once both headers are included,
\* every function name of the surface is bound to its runtime equivalent.
C1_AllBoundToRuntime ==
    (target = "msvc" /\ Included("strings.h") /\ Included("unistd.h"))
    => \A n \in SurfaceFuncs : macros[n] = RuntimeEquivalent(n)

\* C1, amended: on the Microsoft runtime, once both headers are included,
\* each of access .. unlink is bound to its underscore name; each of
\* strcasecmp, strncasecmp, bzero is bound to its runtime equivalent unless
\* the unit had already defined it as a macro, and then it keeps that
\* definition; no name of the surface is left unbound.
C1_BoundUnlessPredefined ==
    (target = "msvc" /\ Included("strings.h") /\ Included("unistd.h"))
    => /\ \A n \in Range(UnistdFuncs) : macros[n] = RuntimeEquivalent(n)
       /\ \A n \in Range(StringsNames) :
             macros[n] = IF tuDefs[n] = Undef THEN RuntimeEquivalent(n)
                                              ELSE tuDefs[n]
       /\ \A n \in SurfaceMacros : macros[n] # Undef

C1_Witness ==
    /\ target = "msvc" /\ Included("strings.h") /\ Included("unistd.h")
    /\ tuDefs["strncasecmp"] = Undef /\ macros["strncasecmp"] = "_strnicmp"
    /\ tuDefs["bzero"] = "other" /\ macros["bzero"] = "other"
    /\ macros["unlink"] = "_unlink"

\* C2: on a POSIX runtime the headers define no name of the surface, and
\* the system headers made visible are exactly those of the same names as
\* the headers included.
C2_InertOnPosix ==
    (target = "posix" /\ diag = "ok")
    => /\ \A n \in SurfaceMacros \cup {"ssize_t"} : defCount[n] = 0
       /\ sysIncluded = {h \in ShimHeaders : Included(h)}

\* C3: however often and in whatever order the two headers are included,
\* no macro or type of the headers is defined more than once, and an
\* inclusion after the first of a header changes no binding.
C3_Idempotent ==
    [][/\ \A n \in MacroNames : defCount'[n] <= 1
       /\ \A h \in ShimHeaders :
             (inclCount[h] >= 1 /\ inclCount'[h] = inclCount[h] + 1)
             => /\ macros' = macros
                /\ ssizeType' = ssizeType
                /\ defCount' = defCount
                /\ redef' = redef]_vars

C3_Witness ==
    /\ target = "msvc"
    /\ inclCount["strings.h"] >= 2 /\ inclCount["unistd.h"] >= 2
    /\ defCount["access"] = 1 /\ defCount["bzero"] = 1
    /\ defCount["ssize_t"] = 1

\* C4: on the Microsoft runtime ssize_t is at least as wide as a pointer,
\* and at least 32 bits wide, on 32- and 64-bit targets alike.
C4_SsizeHoldsPointerDifference ==
    (target = "msvc" /\ ssizeType # "none")
    => /\ TypeBits(target, ssizeType, ptrBits) >= ptrBits
       /\ TypeBits(target, ssizeType, ptrBits) >= 32

\* C5, as stated: on the Microsoft runtime, after unistd.h is included,
\* F_OK = 0, X_OK = 0, W_OK = 2, R_OK = 4, and access(path, X_OK) gives
\* what access(path, F_OK) gives, for every path.
C5_PermissionConstants ==
    (target = "msvc" /\ Included("unistd.h"))
    => /\ macros["F_OK"] = "0" /\ macros["X_OK"] = "0"
       /\ macros["W_OK"] = "2" /\ macros["R_OK"] = "4"
       /\ \A k \in FileKinds :
             AccessOutcome(macros, k, "X_OK") = AccessOutcome(macros, k, "F_OK")

\* C5, amended: on the Microsoft runtime, after unistd.h is included, each
\* of the four constants that the unit had not already defined as a macro
\* has its value of F_OK = 0, X_OK = 0, W_OK = 2, R_OK = 4; and when the
\* unit had defined neither F_OK nor X_OK, access(path, X_OK) gives what
\* access(path, F_OK) gives, for every path.
C5_PermissionConstantsUnlessPredefined ==
    (target = "msvc" /\ Included("unistd.h"))
    => /\ tuDefs["F_OK"] = Undef => macros["F_OK"] = "0"
       /\ tuDefs["X_OK"] = Undef => macros["X_OK"] = "0"
       /\ tuDefs["W_OK"] = Undef => macros["W_OK"] = "2"
       /\ tuDefs["R_OK"] = Undef => macros["R_OK"] = "4"
       /\ (tuDefs["F_OK"] = Undef /\ tuDefs["X_OK"] = Undef)
          => /\ macros["access"] = "_access"
             /\ \A k \in FileKinds :
                   AccessOutcome(macros, k, "X_OK")
                     = AccessOutcome(macros, k, "F_OK")
             /\ (call.via = "access" /\ call.args[2] = "X_OK")
                => call.seen = NativeAccess(call.args[1], 0)

C5_Witness ==
    /\ target = "msvc" /\ Included("unistd.h")
    /\ tuDefs["F_OK"] = Undef /\ tuDefs["X_OK"] = Undef
    /\ call.via = "access" /\ call.args = <<"readonly", "X_OK">>
    /\ call.seen = 0

C7_BzeroZeroes ==
    (call.via = "bzero")
    => /\ \A i \in 1..call.args[2] : call.mem[i] = 0
       /\ Len(call.mem) = Len(call.args[1])

C7_Witness ==
    /\ call.via = "bzero" /\ call.args[2] = BufLen
    /\ \A i \in 1..BufLen : call.args[1][i] = 7 /\ call.mem[i] = 0

\* C8: access(path, F_OK) succeeds exactly when _access(path, 0) does.
C8_AccessExistence ==
    (target = "msvc" /\ Included("unistd.h"))
    => /\ macros["access"] = "_access"
       /\ \A k \in FileKinds :
             (AccessOutcome(macros, k, "F_OK") = 0) <=> (NativeAccess(k, 0) = 0)
       /\ (call.via = "access" /\ call.args[2] = "F_OK")
          => ((call.seen = 0) <=> (NativeAccess(call.args[1], 0) = 0))

C8_Witness ==
    /\ target = "msvc" /\ Included("unistd.h")
    /\ call.via = "access" /\ call.args = <<"readonly", "F_OK">>
    /\ call.seen = 0

\* C9: on a runtime that is neither POSIX nor Microsoft's, including
\* either header ends in a compile error.
C9_OtherRuntimeFailsToCompile ==
    (target = "other" /\ \E h \in ShimHeaders : inclCount[h] >= 1)
    => diag = "fatal"

\* C10: on the Microsoft runtime a macro of the surface that the unit
\* defined before the headers keeps its definition, and is not redefined.
C10_NeverOverrides ==
    (target = "msvc")
    => \A n \in SurfaceMacros :
          tuDefs[n] # Undef => (macros[n] = tuDefs[n] /\ n \notin redef)

====
